---- MODULE Spec2Model ----
(***************************************************************************)
(* scripts/update_news.py: one batch run of update_html_file().            *)
(*                                                                         *)
(* Text is modelled as a sequence of tokens.  A token is either one of the *)
(* characters the splice and the serializer look at (brace, semicolon,     *)
(* newline, quote, backslash) or an opaque run of other characters (a      *)
(* word).  The text "const contentDatabase = " is the single token MARK.   *)
(* An entry carries the fields the run decides on (title, link, summary,   *)
(* source, readTime); date and content are copied through untouched by     *)
(* the code and are left out.                                              *)
(***************************************************************************)
EXTENDS Integers, Sequences, FiniteSets, TLC

VARIABLES
    disk,               \* index.html on disk: a token sequence, or NoDoc
    html_content,       \* update_html_file: the text read at the start
    next_source,        \* build_content_database: position in SOURCES
    budget,             \* sources that may return a non-empty feed in this run
    fetch_error,        \* the source whose fetch raised in the last pass of the loop
    category_articles,  \* build_content_database: bucket key -> candidates
    all_articles,       \* build_content_database: every entry, in order
    database,           \* build_content_database: the value being built
    json_str,           \* update_html_file: json.dumps(new_db)
    new_html,           \* update_html_file: the text to write
    status,             \* "running", "success" (the final print), "raised"
    pc

vars == <<disk, html_content, next_source, budget, fetch_error,
          category_articles, all_articles, database, json_str, new_html,
          status, pc>>

----------------------------------------------------------------------------
(* Bounds of the model *)

\* sources that return a non-empty feed in one run
MaxLive == 3
\* the same, in the runs that vary the host document
MaxLiveSplice == 1
\* papers the Hugging Face API returns (the code sets no cap of its own)
MaxPapers == 9
\* tokens of the old literal between its opening brace and the tail
MaxLit == 3

(* Program constants *)

RssCap == 8
HtmlCap == 5
BucketCap == 8
SummaryCap == 3

----------------------------------------------------------------------------
(* Tokens.  A token "zh_..." stands for a run of Chinese (non-ASCII)   *)
(* characters, named by its pinyin.                                        *)

MARK == "const contentDatabase = "
LB == "{"
RB == "}"
SEMI == ";"
NL == "\n"
QUOTE == "\""
BS == "\\"
\* no index.html
NoDoc == <<"NoFile">>
NoError == "NoError"
NoText == <<"NoText">>

RECURSIVE SeqSum(_)
SeqSum(s) == IF s = <<>> THEN 0 ELSE Head(s) + SeqSum(Tail(s))

\* the concatenation of ss[lo..hi]
RECURSIVE FlattenRange(_, _, _)
FlattenRange(ss, lo, hi) ==
    IF lo > hi THEN <<>>
    ELSE IF lo = hi THEN ss[lo]
    ELSE LET mid == (lo + hi) \div 2 IN
         FlattenRange(ss, lo, mid) \o FlattenRange(ss, mid + 1, hi)

Flatten(ss) == FlattenRange(ss, 1, Len(ss))

\* every sequence over S of length at most n
BSeq(S, n) == UNION {[1..k -> S] : k \in 0..n}

Take(s, n) == SubSeq(s, 1, IF n < Len(s) THEN n ELSE Len(s))

----------------------------------------------------------------------------
(* Configuration tables *)

Src(c, n, u, t) == [cat |-> c, name |-> n, url |-> u, type |-> t]

SOURCES == <<
    Src("bigModel", "OpenAI Blog", "openai.com/blog/rss.xml", "rss"),
    Src("bigModel", "Anthropic News", "anthropic.com/news/rss.xml", "rss"),
    Src("bigModel", "Google DeepMind", "deepmind.google/discover/feed", "rss"),
    Src("bigModel", "Meta AI Blog", "ai.meta.com/blog/rss", "rss"),
    Src("bigModel", "Hugging Face Papers", "huggingface.co/papers", "hf_api"),
    Src("bigModel", "Mistral AI", "mistral.ai/news", "html"),
    Src("bigModel", "xAI", "x.ai/news", "html"),
    Src("hardware", "NVIDIA Blog AI", "blogs.nvidia.com/ai/feed", "rss"),
    Src("hardware", "NVIDIA Blog Robotics", "blogs.nvidia.com/robotics/feed", "rss"),
    Src("investment", "TechCrunch AI", "techcrunch.com/ai/feed", "rss"),
    Src("investment", "TechCrunch Funding", "techcrunch.com/venture/feed", "rss"),
    Src("investment", "VentureBeat AI", "venturebeat.com/ai/feed", "rss"),
    Src("global", "MIT Tech Review AI", "technologyreview.com/ai/feed", "rss"),
    Src("global", "The Verge AI", "theverge.com/ai/rss", "rss"),
    Src("industry", "Google AI Blog", "ai.googleblog.com/feeds", "rss"),
    Src("industry", "Microsoft AI Blog", "blogs.microsoft.com/ai/feed", "rss"),
    Src("product", "OpenAI Product", "openai.com/blog/rss.xml", "rss"),
    Src("product", "Anthropic Product", "anthropic.com/news/rss.xml", "rss") >>

NumSources == Len(SOURCES)

\* CATEGORY_META.keys(), in the dict's order
CATEGORY_META == <<"bigModel", "hardware", "global", "investment", "industry", "product">>

CategoryKeys == {CATEGORY_META[i] : i \in 1..Len(CATEGORY_META)}

\* title / desc / icon of a bucket: fixed text without any special character
MetaText(key, field) == <<key, field>>

InvestKeywords == {"zh_rongzi", "zh_touzi", "funding", "investment", "$", "million", "zh_guzhi", "billion"}

LaunchKeywords == {"zh_fabu", "zh_tuichu", "zh_shangxian", "launch", "release", "product", "update", "available"}

priority_sources == <<"OpenAI Blog", "Anthropic News", "Google DeepMind",
                      "Meta AI Blog", "Hugging Face", "NVIDIA Blog AI">>

----------------------------------------------------------------------------
(* What a fetcher returns *)

\* the source name a fetcher writes into its entries
EntryName(src) == IF src.type = "hf_api" THEN "Hugging Face" ELSE src.name

\* the longest feed a fetcher returns
FeedCap(src) ==
    IF src.type = "rss" THEN RssCap
    ELSE IF src.type = "html" THEN HtmlCap
    ELSE MaxPapers

Kinds == {"plain", "invest", "launch", "both"}

\* the path of the n-th article of a site
NumTok == <<"/1", "/2", "/3", "/4", "/5", "/6", "/7", "/8", "/9", "/10",
            "/11", "/12", "/13", "/14", "/15", "/16">>

KindTitle(kind) ==
    CASE kind = "plain"  -> <<"GPT", "zh_moxing">>
      [] kind = "invest" -> <<"Anthropic", "Funding">>
      [] kind = "launch" -> <<"gemini", "zh_shangxian">>
      [] kind = "both"   -> <<"funding", "launch">>

KindSummary(kind) ==
    CASE kind = "plain"  -> <<"zh_dongtai", QUOTE, "a", QUOTE>>
      [] kind = "invest" -> <<"a", NL, "b">>
      [] kind = "launch" -> <<"a", BS, "n">>
      [] kind = "both"   -> <<LB, RB, SEMI>>

Entry(src, kind, n) ==
    [title |-> IF src.type = "hf_api" THEN <<"[zh_lunwen]">> \o KindTitle(kind)
                                     ELSE KindTitle(kind),
     link |-> <<src.url, NumTok[n]>>,
     summary |-> KindSummary(kind),
     source |-> EntryName(src)]

\* a feed of one entry
SingleFeed(src) == <<Entry(src, "invest", 1)>>

\* every kind, with a link that repeats inside the feed
MixedFeed(src) ==
    <<Entry(src, "launch", 1), Entry(src, "invest", 2),
      Entry(src, "both", 2), Entry(src, "plain", 1)>>

\* a full feed of distinct links
BulkFeed(src) == [n \in 1..FeedCap(src) |-> Entry(src, "plain", n)]

Feeds(src) == {SingleFeed(src), MixedFeed(src), BulkFeed(src)}

----------------------------------------------------------------------------
(* fetch_rss / fetch_hf_papers / fetch_html_list *)

\* FetchEntries with an except branch that returns the entries built so far
FetchEntries_Partial(parsed, raised) == parsed

\* `parsed` is what the try block had built when it returned or raised
FetchEntries(parsed, raised) == IF raised THEN <<>> ELSE parsed

----------------------------------------------------------------------------
(* build_content_database: the fetch-and-classify loop *)

Lower(tok) ==
    CASE tok = "Funding" -> "funding"
      [] tok = "GPT" -> "gpt"
      [] tok = "Anthropic" -> "anthropic"
      [] OTHER -> tok

LowerText(text) == [i \in 1..Len(text) |-> Lower(text[i])]

\* any(k in title_lower for k in keywords)
AnyKeyword(keywords, title_lower) ==
    \E i \in 1..Len(title_lower) : title_lower[i] \in keywords

estimate_read_time(text) == "1 zh_fenzhong"

\* FinalCat with a launch title sent to a key of its own
FinalCat_Unlisted(cat_key, title) ==
    LET title_lower == LowerText(title) IN
    IF AnyKeyword(InvestKeywords, title_lower) THEN "investment"
    ELSE IF AnyKeyword(LaunchKeywords, title_lower) THEN "launch"
         ELSE cat_key

\* FinalCat with the launch keywords tested first
FinalCat_LaunchFirst(cat_key, title) ==
    LET title_lower == LowerText(title) IN
    IF AnyKeyword(LaunchKeywords, title_lower)
    THEN (IF cat_key \notin {"product", "bigModel"} THEN "product" ELSE cat_key)
    ELSE IF AnyKeyword(InvestKeywords, title_lower) THEN "investment"
         ELSE cat_key

FinalCat(cat_key, title) ==
    LET title_lower == LowerText(title) IN
    IF AnyKeyword(InvestKeywords, title_lower) THEN "investment"
    ELSE IF AnyKeyword(LaunchKeywords, title_lower)
         THEN (IF cat_key \notin {"product", "bigModel"} THEN "product" ELSE cat_key)
         ELSE cat_key

WithReadTime(entry) ==
    [title |-> entry.title, link |-> entry.link, summary |-> entry.summary,
     source |-> entry.source, readTime |-> estimate_read_time(entry.summary)]

\* the body of `for entry in entries`, folded over the entries
RECURSIVE ClassifyEntries(_, _, _)
ClassifyEntries(cat_key, entries, acc) ==
    IF entries = <<>> THEN acc
    ELSE LET entry == WithReadTime(Head(entries))
             final_cat == FinalCat(cat_key, entry.title)
             cats == IF final_cat \in DOMAIN acc.category_articles
                     THEN [acc.category_articles EXCEPT
                              ![final_cat] = Append(@, entry)]
                     ELSE acc.category_articles
         IN ClassifyEntries(cat_key, Tail(entries),
                [category_articles |-> cats,
                 all_articles |-> Append(acc.all_articles, entry)])

----------------------------------------------------------------------------
(* build_content_database: buckets *)

\* the de-duplication loop: `seen` holds the links met so far
RECURSIVE UniqueLoop(_, _, _)
UniqueLoop(articles, seen, unique) ==
    IF articles = <<>> THEN unique
    ELSE LET a == Head(articles) IN
         IF a.link \notin seen
         THEN UniqueLoop(Tail(articles), seen \cup {a.link}, Append(unique, a))
         ELSE UniqueLoop(Tail(articles), seen, unique)

\* Unique with the later of two entries of one link kept
Unique_KeepLast(articles) ==
    LET reversed == [i \in 1..Len(articles) |-> articles[Len(articles) + 1 - i]]
        kept == UniqueLoop(reversed, {}, <<>>)
    IN [i \in 1..Len(kept) |-> kept[Len(kept) + 1 - i]]

Unique(articles) == UniqueLoop(articles, {}, <<>>)

\* Capped without the slice
Capped_NoLimit(unique) == unique

\* unique[:8]
Capped(unique) == Take(unique, BucketCap)

Bucket(cat_key, articles) ==
    [title |-> MetaText(cat_key, "title"),
     desc |-> MetaText(cat_key, "desc"),
     icon |-> MetaText(cat_key, "icon"),
     articles |-> articles]

\* FilledKeys with the empty buckets left out
FilledKeys_NonEmpty(cats) == {k \in CategoryKeys : k \in DOMAIN cats /\ cats[k] # <<>>}

\* the keys the fill loop writes: every key of CATEGORY_META
FilledKeys(cats) == CategoryKeys

\* category_articles.get(cat_key, [])
GetArticles(cats, cat_key) == IF cat_key \in DOMAIN cats THEN cats[cat_key] ELSE <<>>

BuildCategories(cats) ==
    [cat_key \in FilledKeys(cats) |->
        Bucket(cat_key, Capped(Unique(GetArticles(cats, cat_key))))]

\* the block under `if not database["categories"]`
EnsureCategories(categories) ==
    IF DOMAIN categories = {}
    THEN [cat_key \in CategoryKeys |-> Bucket(cat_key, <<>>)]
    ELSE categories

----------------------------------------------------------------------------
(* build_content_database: summaries *)

Range(s) == {s[i] : i \in 1..Len(s)}

\* source_groups[src]
SourceGroup(articles, src) == SelectSeq(articles, LAMBDA a : a.source = src)

\* the keys of source_groups, in insertion order
RECURSIVE GroupOrder(_, _)
GroupOrder(articles, order) ==
    IF articles = <<>> THEN order
    ELSE GroupOrder(Tail(articles),
                    IF Head(articles).source \in Range(order)
                    THEN order ELSE Append(order, Head(articles).source))

\* `for src in priority_sources`, from position i on
RECURSIVE PriorityLoop(_, _, _)
PriorityLoop(articles, i, summaries) ==
    IF i > Len(priority_sources) THEN summaries
    ELSE LET group == SourceGroup(articles, priority_sources[i])
             picked == IF group # <<>> THEN Append(summaries, group[1])
                       ELSE summaries
         IN IF Len(picked) >= SummaryCap THEN picked
            ELSE PriorityLoop(articles, i + 1, picked)

\* FillAdds without the test `not in summaries`
FillAdds_NoMembership(group, summaries) == group # <<>>

\* whether the fill loop adds the group's first article
FillAdds(group, summaries) == group # <<>> /\ group[1] \notin Range(summaries)

\* `for src, articles in source_groups.items()`
RECURSIVE FillLoop(_, _, _)
FillLoop(articles, order, summaries) ==
    IF order = <<>> THEN summaries
    ELSE LET group == SourceGroup(articles, Head(order))
             picked == IF FillAdds(group, summaries)
                       THEN Append(summaries, group[1]) ELSE summaries
         IN IF Len(picked) >= SummaryCap THEN picked
            ELSE FillLoop(articles, Tail(order), picked)

PickSummaries(articles) ==
    LET first == PriorityLoop(articles, 1, <<>>) IN
    IF Len(first) < SummaryCap
    THEN FillLoop(articles, GroupOrder(articles, <<>>), first)
    ELSE first

\* the summaries of this model carry no tag and are shorter than 150 characters
FormatSummary(article) ==
    LET clean == article.summary IN
    [text |-> IF clean # <<>> THEN clean ELSE article.title,
     source |-> article.source,
     url |-> article.link]

FormatSummaries(summaries) ==
    LET top == Take(summaries, SummaryCap) IN
    [i \in 1..Len(top) |-> FormatSummary(top[i])]

----------------------------------------------------------------------------
(* json.dumps(new_db, ensure_ascii=False, indent=8)                        *)
(*                                                                         *)
(* A value is first laid out as its sequence of lexemes (punctuation and   *)
(* strings), which stands for the value itself; the text is the rendering  *)
(* of the lexemes.  Indentation blanks are left out, line breaks are kept. *)

P(x) == <<"p", x>>
S(content) == <<"s">> \o content

\* lexemes of the items of a container, separated by commas
RECURSIVE JoinLex(_)
JoinLex(items) ==
    IF items = <<>> THEN <<>>
    ELSE IF Len(items) = 1 THEN items[1]
    ELSE items[1] \o <<P(",")>> \o JoinLex(Tail(items))

ObjLex(fields) ==
    IF fields = <<>> THEN <<P("{}")>>
    ELSE <<P(LB)>> \o JoinLex(fields) \o <<P(RB)>>

ListLex(items) ==
    IF items = <<>> THEN <<P("[]")>>
    ELSE <<P("[")>> \o JoinLex(items) \o <<P("]")>>

KV(key, value) == <<S(<<key>>), P(":")>> \o value

ArticleLex(a) ==
    ObjLex(<<KV("title", <<S(a.title)>>),
             KV("link", <<S(a.link)>>),
             KV("summary", <<S(a.summary)>>),
             KV("source", <<S(<<a.source>>)>>),
             KV("readTime", <<S(<<a.readTime>>)>>)>>)

SummaryLex(f) ==
    ObjLex(<<KV("text", <<S(f.text)>>),
             KV("source", <<S(<<f.source>>)>>),
             KV("url", <<S(f.url)>>)>>)

BucketLex(b) ==
    ObjLex(<<KV("title", <<S(b.title)>>),
             KV("desc", <<S(b.desc)>>),
             KV("icon", <<S(b.icon)>>),
             KV("articles",
                ListLex([i \in 1..Len(b.articles) |-> ArticleLex(b.articles[i])]))>>)

DbLex(db) ==
    LET keys == SelectSeq(CATEGORY_META, LAMBDA k : k \in DOMAIN db.categories) IN
    ObjLex(<<KV("summaries",
                ListLex([g \in 1..Len(db.summaries) |->
                    ListLex([i \in 1..Len(db.summaries[g]) |->
                        SummaryLex(db.summaries[g][i])])])),
             KV("categories",
                ObjLex([i \in 1..Len(keys) |->
                    KV(keys[i], BucketLex(db.categories[keys[i]]))]))>>)

\* the characters json.dumps writes for one character of a string
EscapeToken(tok) ==
    CASE tok = QUOTE -> <<BS, QUOTE>>
      [] tok = BS -> <<BS, BS>>
      [] tok = NL -> <<BS, "n">>
      [] OTHER -> <<tok>>

Escape(content) == Flatten([i \in 1..Len(content) |-> EscapeToken(content[i])])

Render(lexeme) ==
    IF lexeme[1] = "s" THEN <<QUOTE>> \o Escape(Tail(lexeme)) \o <<QUOTE>>
    ELSE CASE lexeme[2] \in {LB, "["} -> <<lexeme[2], NL>>
           [] lexeme[2] \in {RB, "]"} -> <<NL, lexeme[2]>>
           [] lexeme[2] = "," -> <<",", NL>>
           [] lexeme[2] = ":" -> <<": ">>
           [] OTHER -> <<lexeme[2]>>

Dumps(db) ==
    LET lexemes == DbLex(db) IN
    Flatten([i \in 1..Len(lexemes) |-> Render(lexemes[i])])

----------------------------------------------------------------------------
(* re.sub(pattern, replacement, html_content, flags=re.DOTALL) *)

\* the number of backslashes that end right before position i
RECURSIVE BackslashRun(_, _)
BackslashRun(text, i) ==
    IF i > 1 /\ text[i - 1] = BS THEN 1 + BackslashRun(text, i - 1) ELSE 0

\* position i follows a backslash that opens an escape
Escaped(text, i) == BackslashRun(text, i) % 2 = 1

\* the positions of the backslashes that open an escape
EscapeLeads(text) == {i \in 1..Len(text) : text[i] = BS /\ ~Escaped(text, i)}

\* What the expansion of a replacement template writes for the escape
\* that opens at position i: a backslash followed by a backslash is one
\* backslash, followed by n is a line break, followed by a non-letter
\* stays as written.
ExpandEscape(text, i) ==
    IF i = Len(text) THEN <<BS>>
    ELSE CASE text[i + 1] = BS -> <<BS>>
           [] text[i + 1] = "n" -> <<NL>>
           [] OTHER -> <<BS, text[i + 1]>>

\* the expansion of text[lo..hi], where no escape straddles lo or hi
RECURSIVE ExpandRange(_, _, _, _)
ExpandRange(text, leads, lo, hi) ==
    IF lo > hi THEN <<>>
    ELSE LET inside == {i \in leads : lo <= i /\ i <= hi} IN
         IF inside = {} THEN SubSeq(text, lo, hi)
         ELSE LET mid == (lo + hi) \div 2
                  at == IF \E i \in inside : i <= mid
                        THEN CHOOSE i \in inside :
                                i <= mid /\ \A k \in inside : k <= mid => k <= i
                        ELSE CHOOSE i \in inside : \A k \in inside : i <= k
              IN ExpandRange(text, inside, lo, at - 1)
                 \o ExpandEscape(text, at)
                 \o ExpandRange(text, inside, at + 2, hi)

ExpandTemplate(replacement) ==
    ExpandRange(replacement, EscapeLeads(replacement), 1, Len(replacement))

\* the end of the shortest match of `const contentDatabase = \{.*?\};`
\* that starts at i: the position of its semicolon, or 0
MatchEnd(text, i) ==
    IF /\ i + 1 <= Len(text)
       /\ text[i] = MARK
       /\ text[i + 1] = LB
       /\ \E j \in (i + 2)..(Len(text) - 1) : text[j] = RB /\ text[j + 1] = SEMI
    THEN 1 + CHOOSE j \in (i + 2)..(Len(text) - 1) :
                /\ text[j] = RB /\ text[j + 1] = SEMI
                /\ \A k \in (i + 2)..(j - 1) : ~(text[k] = RB /\ text[k + 1] = SEMI)
    ELSE 0

\* every non-overlapping match, leftmost first, is replaced
RECURSIVE SubFrom(_, _, _)
SubFrom(text, i, expanded) ==
    IF i > Len(text) THEN <<>>
    ELSE LET e == MatchEnd(text, i) IN
         IF e > 0 THEN expanded \o SubFrom(text, e + 1, expanded)
         ELSE <<text[i]>> \o SubFrom(text, i + 1, expanded)

ReSub(replacement, text) == SubFrom(text, 1, ExpandTemplate(replacement))

----------------------------------------------------------------------------
(* update_html_file: the line-based replacement *)

\* html_content.split('\n')
RECURSIVE SplitLines(_, _, _)
SplitLines(text, i, line) ==
    IF i > Len(text) THEN <<line>>
    ELSE IF text[i] = NL THEN <<line>> \o SplitLines(text, i + 1, <<>>)
    ELSE SplitLines(text, i + 1, Append(line, text[i]))

\* '\n'.join(lines)
RECURSIVE JoinLines(_)
JoinLines(lines) ==
    IF Len(lines) = 1 THEN lines[1]
    ELSE lines[1] \o <<NL>> \o JoinLines(Tail(lines))

\* 'const contentDatabase = {' in line
HasMarker(line) == \E k \in 1..(Len(line) - 1) : line[k] = MARK /\ line[k + 1] = LB

Count(line, tok) == Cardinality({k \in 1..Len(line) : line[k] = tok})

\* the while loop: the line on which brace reaches 0, or 0
RECURSIVE BraceLoop(_, _, _)
BraceLoop(lines, j, brace) ==
    IF ~(j <= Len(lines) /\ brace > 0) THEN 0
    ELSE LET b == brace + Count(lines[j], LB) - Count(lines[j], RB) IN
         IF b = 0 THEN j ELSE BraceLoop(lines, j + 1, b)

LineReplace(text, assignment) ==
    LET lines == SplitLines(text, 1, <<>>)
        marked == {i \in 1..Len(lines) : HasMarker(lines[i])}
    IN IF marked = {} THEN text
       ELSE LET start == CHOOSE i \in marked : \A k \in marked : i <= k
                j == BraceLoop(lines, start + 1, 1)
            IN IF j = 0 THEN text
               ELSE JoinLines(SubSeq(lines, 1, start - 1) \o <<assignment>>
                              \o SubSeq(lines, j + 1, Len(lines)))

\* new_html as update_html_file computes it
Spliced(text, dumped) ==
    LET assignment == <<MARK>> \o dumped \o <<SEMI>>
        replaced == ReSub(assignment, text)
    IN IF replaced = text THEN LineReplace(text, assignment) ELSE replaced

----------------------------------------------------------------------------
(* The host documents of the runs that vary the document *)

Tails == {<<RB, SEMI, NL, "y">>, <<NL, RB, NL, "y">>, <<>>}

Docs ==
    {<<"x", NL, MARK, LB>> \o w \o t : w \in BSeq({LB, RB, SEMI}, MaxLit), t \in Tails}
    \cup {<<"x", NL, "y">>, <<"x", MARK, LB, NL, RB, NL, "y">>}

----------------------------------------------------------------------------
InitRun ==
    /\ html_content = NoText
    /\ next_source = 1
    /\ fetch_error = NoError
    /\ category_articles = [k \in CategoryKeys |-> <<>>]
    /\ all_articles = <<>>
    /\ database = [summaries |-> <<>>, categories |-> <<>>]
    /\ json_str = NoText
    /\ new_html = NoText
    /\ status = "running"
    /\ pc = "read"

\* a run over a well-formed host document
Init ==
    /\ disk = <<"x", NL, MARK, LB, "old", LB, RB, RB, SEMI, NL, "y">>
    /\ budget = MaxLive
    /\ InitRun

\* a run over any host document, or none
InitSplice ==
    /\ disk \in Docs \cup {NoDoc}
    /\ budget = MaxLiveSplice
    /\ InitRun

ReadFile ==
    /\ pc = "read"
    /\ IF disk = NoDoc
       THEN /\ status' = "raised"
            /\ pc' = "done"
            /\ UNCHANGED html_content
       ELSE /\ html_content' = disk
            /\ pc' = "fetch"
            /\ UNCHANGED status
    /\ UNCHANGED <<disk, next_source, budget, fetch_error, category_articles,
                   all_articles, database, json_str, new_html>>

\* the sources that have produced an entry so far
SourcesSeen(articles) == {articles[i].source : i \in 1..Len(articles)}

FetchSource ==
    /\ pc = "fetch"
    /\ next_source <= NumSources
    /\ LET source == SOURCES[next_source] IN
       \E parsed \in Feeds(source) \cup {<<>>}, raised \in BOOLEAN :
          /\ LET entries == FetchEntries(parsed, raised)
                 acc == ClassifyEntries(source.cat, entries,
                            [category_articles |-> category_articles,
                             all_articles |-> all_articles])
             IN /\ entries # <<>> => Cardinality(SourcesSeen(all_articles)) < budget
                /\ category_articles' = acc.category_articles
                /\ all_articles' = acc.all_articles
          /\ fetch_error' = IF raised THEN source.name ELSE NoError
    /\ next_source' = next_source + 1
    /\ pc' = IF next_source = NumSources THEN "fill" ELSE "fetch"
    /\ UNCHANGED <<disk, html_content, budget, database, json_str, new_html, status>>

FillCategories ==
    /\ pc = "fill"
    /\ database' = [database EXCEPT !.categories = BuildCategories(category_articles)]
    /\ fetch_error' = NoError
    /\ pc' = "select"
    /\ UNCHANGED <<disk, html_content, next_source, budget,
                   category_articles, all_articles, json_str, new_html, status>>

SelectSummaries ==
    /\ pc = "select"
    /\ database' = [summaries |-> <<FormatSummaries(PickSummaries(all_articles))>>,
                    categories |-> EnsureCategories(database.categories)]
    /\ pc' = "splice"
    /\ UNCHANGED <<disk, html_content, next_source, budget, fetch_error,
                   category_articles, all_articles, json_str, new_html, status>>

Splice ==
    /\ pc = "splice"
    /\ json_str' = Dumps(database)
    /\ new_html' = Spliced(html_content, json_str')
    /\ pc' = "write"
    /\ UNCHANGED <<disk, html_content, next_source, budget, fetch_error,
                   category_articles, all_articles, database, status>>

WriteFile ==
    /\ pc = "write"
    /\ disk' = new_html
    /\ status' = "success"
    /\ pc' = "done"
    /\ UNCHANGED <<html_content, next_source, budget, fetch_error,
                   category_articles, all_articles, database, json_str, new_html>>

Next ==
    \/ ReadFile
    \/ FetchSource
    \/ FillCategories
    \/ SelectSummaries
    \/ Splice
    \/ WriteFile

Spec == Init /\ [][Next]_vars

SpecSplice == InitSplice /\ [][Next]_vars

----------------------------------------------------------------------------
(* Reading the spliced document back: the literal after the marker, parsed *)
(* as JSON.  A parsed value is given by its lexemes, as in DbLex.          *)

LexError(st) == [st EXCEPT !.mode = "error"]

Emit(st, lexeme) == [st EXCEPT !.out = Append(@, lexeme)]

LexStep(st, tok) ==
    CASE st.mode \in {"done", "error"} -> st
      [] st.mode = "out" ->
            IF tok = NL THEN st
            ELSE IF st.depth = 0 /\ tok # LB THEN LexError(st)
            ELSE IF tok = QUOTE THEN [st EXCEPT !.mode = "str", !.cur = <<>>]
            ELSE IF tok = LB THEN [Emit(st, P(LB)) EXCEPT !.depth = @ + 1]
            ELSE IF tok = RB
                 THEN [Emit(st, P(RB)) EXCEPT
                          !.depth = @ - 1,
                          !.mode = IF st.depth = 1 THEN "done" ELSE "out"]
            ELSE IF tok = ": " THEN Emit(st, P(":"))
            ELSE IF tok \in {",", "[", "]", "[]", "{}"} THEN Emit(st, P(tok))
            ELSE LexError(st)
      [] st.mode = "str" ->
            IF tok = QUOTE THEN [Emit(st, S(st.cur)) EXCEPT !.mode = "out"]
            ELSE IF tok = BS THEN [st EXCEPT !.mode = "esc"]
            ELSE IF tok = NL THEN LexError(st)
            ELSE [st EXCEPT !.cur = Append(@, tok)]
      [] st.mode = "esc" ->
            IF tok \in {QUOTE, BS} THEN [st EXCEPT !.mode = "str", !.cur = Append(@, tok)]
            ELSE IF tok = "n" THEN [st EXCEPT !.mode = "str", !.cur = Append(@, NL)]
            ELSE IF tok = "b" THEN [st EXCEPT !.mode = "str", !.cur = Append(@, "BACKSPACE")]
            ELSE LexError(st)

RECURSIVE LexFold(_, _, _, _)
LexFold(text, lo, hi, st) ==
    IF lo > hi THEN st
    ELSE IF lo = hi THEN LexStep(st, text[lo])
    ELSE LET mid == (lo + hi) \div 2
             left == LexFold(text, lo, mid, st)
         IN IF left.mode \in {"done", "error"} THEN left
            ELSE LexFold(text, mid + 1, hi, left)

\* the first JSON value of the text, or a parse error
Loads(text) ==
    LET st == LexFold(text, 1, Len(text),
                      [mode |-> "out", depth |-> 0, out |-> <<>>, cur |-> <<>>])
    IN IF st.mode = "done" THEN st.out ELSE <<<<"error">>>>

Markers(doc) == {i \in 1..Len(doc) : doc[i] = MARK}

FirstMarker(doc) == CHOOSE m \in Markers(doc) : \A k \in Markers(doc) : m <= k

\* the text after the first 'const contentDatabase = '
AfterMarker(doc) ==
    IF Markers(doc) = {} THEN <<>>
    ELSE SubSeq(doc, FirstMarker(doc) + 1, Len(doc))

\* open braces minus close braces in doc[from..to]
Depth(doc, from, to) ==
    Cardinality({i \in from..to : doc[i] = LB})
    - Cardinality({i \in from..to : doc[i] = RB})

\* the close brace that matches the open brace at position o, or 0
MatchingBrace(doc, o) ==
    LET ends == {e \in (o + 1)..Len(doc) :
                    /\ doc[e] = RB
                    /\ Depth(doc, o, e) = 0
                    /\ \A k \in o..(e - 1) : Depth(doc, o, k) > 0}
    IN IF ends = {} THEN 0 ELSE CHOOSE e \in ends : TRUE

\* the document has the marker, and the marker's literal is brace-balanced
SpliceApplies(doc) ==
    \E m \in Markers(doc) :
        /\ m < Len(doc)
        /\ doc[m + 1] = LB
        /\ MatchingBrace(doc, m + 1) # 0

\* exactly one assignment `const contentDatabase = {...};`, brace-balanced
WellFormed(doc) ==
    /\ Cardinality(Markers(doc)) = 1
    /\ LET m == FirstMarker(doc) IN
       /\ m < Len(doc)
       /\ doc[m + 1] = LB
       /\ LET e == MatchingBrace(doc, m + 1) IN
          /\ e # 0
          /\ e < Len(doc)
          /\ doc[e + 1] = SEMI

\* ... whose literal holds nested braces
WellFormedNested(doc) ==
    /\ WellFormed(doc)
    /\ LET m == FirstMarker(doc) IN
       \E i \in (m + 2)..(MatchingBrace(doc, m + 1) - 1) : doc[i] = LB

\* the document the splice is to produce from a well-formed one
ExpectedSplice(doc, dumped) ==
    LET m == FirstMarker(doc)
        e == MatchingBrace(doc, m + 1)
    IN SubSeq(doc, 1, m - 1) \o <<MARK>> \o dumped \o <<SEMI>>
       \o SubSeq(doc, e + 2, Len(doc))

Finished == pc = "done" /\ status = "success"

Built == pc \in {"splice", "write", "done"} /\ status # "raised"

\* the category a source is configured under, by the name in its entries
CatOfName(name) ==
    LET i == CHOOSE i \in 1..NumSources : EntryName(SOURCES[i]) = name
    IN SOURCES[i].cat

HasInvest(e) == AnyKeyword(InvestKeywords, LowerText(e.title))

HasLaunch(e) == AnyKeyword(LaunchKeywords, LowerText(e.title))

\* the elements of s whose link no earlier element has, in order
FirstOccurrences(s) ==
    LET keep == {i \in 1..Len(s) : \A j \in 1..(i - 1) : s[j].link # s[i].link}
    IN [n \in 1..Cardinality(keep) |->
            s[CHOOSE i \in keep : Cardinality({j \in keep : j <= i}) = n]]

----------------------------------------------------------------------------
(* C1: when the host document has no marker, or the marker's literal has   *)
(* unbalanced braces, the document on disk after the run is identical to   *)
(* the document read, and the run does not report success.                 *)
C1_NoSpliceSignalsFailure ==
    (pc = "done" /\ html_content # NoText /\ ~SpliceApplies(html_content))
        => (disk = html_content /\ status # "success")

(* C2: for a host document with exactly one brace-balanced assignment      *)
(* whose literal holds nested braces, the document after the run is the    *)
(* text before the marker, the new assignment, and the text after the old  *)
(* literal's terminator.  (Stated for the runs whose new literal holds no   *)
(* backslash, where the replacement template is the new assignment as      *)
(* written.)                                                               *)
C2_WholeLiteralReplaced ==
    (Finished /\ WellFormedNested(html_content) /\ BS \notin Range(json_str))
        => disk = ExpectedSplice(html_content, json_str)

(* C3: after the database is serialized and spliced into a document that   *)
(* has the marker, parsing the literal that follows the marker yields the  *)
(* database.                                                               *)
C3_RoundTrip ==
    (Finished /\ WellFormed(html_content))
        => Loads(AfterMarker(disk)) = DbLex(database)

(* C4: every bucket of the database has at most 8 articles.                *)
C4_BucketCap ==
    \A k \in DOMAIN database.categories :
        Len(database.categories[k].articles) <= 8

C4_Witness ==
    /\ Finished
    /\ \E k \in CategoryKeys :
          /\ Len(FirstOccurrences(category_articles[k])) > 8
          /\ Len(database.categories[k].articles) = 8

(* C5: the database has exactly the six fixed bucket keys and summaries    *)
(* holds exactly one inner list; with zero articles collected every bucket *)
(* is empty and summaries = [[]].                                          *)
C5_FixedShape ==
    Built =>
        /\ DOMAIN database.categories =
              {"bigModel", "hardware", "global", "investment", "industry", "product"}
        /\ Len(database.summaries) = 1
        /\ all_articles = <<>> =>
              /\ \A k \in DOMAIN database.categories :
                    database.categories[k].articles = <<>>
              /\ database.summaries = << <<>> >>

C5_Witness ==
    /\ Finished
    /\ all_articles = <<>>
    /\ database.summaries = << <<>> >>
    /\ Cardinality(DOMAIN database.categories) = 6

C7_ClassifyTotal ==
    /\ DOMAIN category_articles =
          {"bigModel", "hardware", "global", "investment", "industry", "product"}
    /\ \A i \in 1..Len(all_articles) :
          Cardinality({k \in DOMAIN category_articles :
                          all_articles[i] \in Range(category_articles[k])}) = 1
    /\ SeqSum([i \in 1..Len(CATEGORY_META) |->
                  Len(category_articles[CATEGORY_META[i]])]) = Len(all_articles)
    /\ \A t \in {all_articles[i].title : i \in 1..Len(all_articles)} :
          \A c \in {"bigModel", "hardware", "global", "investment", "industry", "product"} :
              Cardinality({k \in DOMAIN category_articles :
                  \E e \in Range(category_articles[k]) :
                      e.title = t /\ CatOfName(e.source) = c}) <= 1

C7_Witness ==
    /\ Finished
    /\ Cardinality({k \in CategoryKeys : category_articles[k] # <<>>}) >= 3
    /\ \E i \in 1..Len(all_articles) :
          ~HasInvest(all_articles[i]) /\ ~HasLaunch(all_articles[i])

(* C8: a fetch that raises adds no article, the run goes on to the next    *)
(* source, and a run that gets past the loop has attempted every source.   *)
C8_FetchFailureIsolated ==
    /\ [][fetch_error' # NoError =>
             /\ all_articles' = all_articles
             /\ category_articles' = category_articles
             /\ next_source' = next_source + 1
             /\ pc' \in {"fetch", "fill"}
             /\ status' = "running"]_vars
    /\ [](pc \in {"fill", "select", "splice", "write"} => next_source = NumSources + 1)

C8_Witness ==
    /\ fetch_error # NoError
    /\ pc = "fetch"
    /\ all_articles # <<>>
    /\ next_source <= NumSources

(* C9 as claimed: in every bucket, an entry with an investment keyword is  *)
(* in 'investment'; otherwise one with a launch keyword is in 'product';   *)
(* otherwise it is in the category of its source.                          *)
C9_FirstMatchWins ==
    \A k \in DOMAIN category_articles :
        \A e \in Range(category_articles[k]) :
            k = IF HasInvest(e) THEN "investment"
                ELSE IF HasLaunch(e) THEN "product"
                ELSE CatOfName(e.source)

(* C9 amended: an entry with an investment keyword is in 'investment';     *)
(* otherwise one with a launch keyword is in 'product', unless its source  *)
(* is configured under 'bigModel', and then it stays in 'bigModel';        *)
(* otherwise it is in the category of its source.                          *)
C9_FirstMatchWinsExceptBigModel ==
    \A k \in DOMAIN category_articles :
        \A e \in Range(category_articles[k]) :
            k = IF HasInvest(e) THEN "investment"
                ELSE IF HasLaunch(e) /\ CatOfName(e.source) # "bigModel" THEN "product"
                ELSE CatOfName(e.source)

C9_Witness ==
    /\ \E e \in Range(category_articles["bigModel"]) : HasLaunch(e) /\ ~HasInvest(e)
    /\ \E e \in Range(category_articles["product"]) :
          HasLaunch(e) /\ CatOfName(e.source) \notin {"product", "bigModel"}
    /\ \E e \in Range(category_articles["investment"]) :
          HasLaunch(e) /\ HasInvest(e) /\ CatOfName(e.source) # "investment"

(* C10: each bucket's articles are the first up-to-8 of the entries        *)
(* classified into it, in processing order, without every entry whose link *)
(* an earlier one has; no two of them share a link.                        *)
C10_DedupFirstKept ==
    \A k \in DOMAIN database.categories :
        LET articles == database.categories[k].articles IN
        /\ articles = Take(FirstOccurrences(category_articles[k]), 8)
        /\ \A i, j \in 1..Len(articles) : i # j => articles[i].link # articles[j].link

C10_Witness ==
    /\ Finished
    /\ \E k \in CategoryKeys :
          /\ Len(category_articles[k]) <= 8
          /\ Len(database.categories[k].articles) < Len(category_articles[k])
          /\ Len(database.categories[k].articles) >= 2
====
